---- MODULE Spec2Model ----
(***************************************************************************)
(* Model of the Renderer of src/src/renderer.rs: the surface and its       *)
(* configuration, the pipeline registry (a Vec indexed by                  *)
(* RenderPipelineId), and the render_pass frame protocol with the          *)
(* closure-scoped RenderPassBuilder.                                       *)
(*                                                                         *)
(* One Renderer is modelled in full.  A second Renderer instance is        *)
(* modelled by its registry only (other_pipelines), because the only way   *)
(* for a caller to hold a RenderPipelineId that this Renderer did not      *)
(* issue is to obtain it from another instance: the field of               *)
(* RenderPipelineId is private to the module.                              *)
(*                                                                         *)
(* A panic (expect / unwrap) unwinds the calling thread: the model stops   *)
(* at the point of the panic and records its cause in `panic`.             *)
(***************************************************************************)
EXTENDS Integers, Sequences, FiniteSets

\* ---------------------------------------------------------------- bounds
\* Pipelines created per Renderer, render_pass calls, and builder calls made
\* by all closures together.
MaxPipelines == 2
MaxFrames == 2
MaxCalls == 2

\* Surface sizes tried: zero (a minimised window) and the 320 x 240 window
\* of main.rs.
Widths == {0, 320}
Heights == {0, 240}

\* The colour formats an adapter may prefer (get_preferred_format).
Formats == {"Bgra8UnormSrgb", "Rgba8UnormSrgb"}

\* Clear colours a caller passes; main.rs passes CORNFLOWER_BLUE.
Colors == {"CORNFLOWER_BLUE", "BLACK"}

\* The vertex ranges a closure draws with (instances is always 0..1).
VertexRanges == {<<0, 3>>}

\* Option::None of a record-valued option, and of the colour argument.
None == [none |-> TRUE]
NoColor == "NoColor"

VARIABLES
    surface_and_config, \* [surface |-> what the physical surface is configured with,
                        \*  config  |-> the stored SurfaceConfiguration]
    surface_ok,         \* environment: would get_current_frame return Ok now
    pipelines,          \* Vec<RenderPipeline> of this Renderer
    other_pipelines,    \* length of the Vec of another Renderer instance
    queue,              \* command buffers submitted to the Queue, in order
    pc,                 \* position inside render_pass
    clear_color,        \* argument of the running render_pass call
    render_pass,        \* the open wgpu RenderPass: its clear op and commands
    calls,              \* history: the builder calls the closure has made
    frames,             \* history: number of render_pass calls begun
    acquires,           \* history: number of get_current_frame calls made
    acquire_result,     \* history: "Ok" / "Err" of the latest one, or "none"
    issued,             \* history: ids returned by create_render_pipeline here
    created,            \* history: pipeline object made by each such call
    format_at_new,      \* history: format chosen by Renderer::new
    resized,            \* history: the size passed to set_surface_size when that
                        \* call is the latest thing to happen, else None
    panic               \* "none", or the cause of the panic that ended the run

vars == <<surface_and_config, surface_ok, pipelines, other_pipelines, queue, pc,
          clear_color, render_pass, calls, frames, acquires, acquire_result,
          issued, created, format_at_new, resized, panic>>

\* ------------------------------------------------------------- data types
SurfaceConfiguration(f, w, h) ==
    [usage |-> "RENDER_ATTACHMENT", format |-> f, width |-> w, height |-> h,
     present_mode |-> "Fifo"]

\* A RenderPipelineId is a bare index; `owner` is history only (which
\* Renderer returned it) and is never read by the code.
RenderPipelineId(o, i) == [owner |-> o, idx |-> i]

\* A compiled pipeline object: `uid` is the identity of the GPU object.
RenderPipeline(u, f) ==
    [uid |-> u, target |-> f, vs |-> "vs_main", fs |-> "fs_main",
     topology |-> "TriangleList", front_face |-> "Ccw", cull_mode |-> "Back",
     polygon_mode |-> "Fill"]

\* Vec::get(i): Some(v[i]) when i < len, else None (0-based index).
Get(v, i) == IF i < Len(v) THEN v[i + 1] ELSE None

\* surface.configure(device, config): the surface takes the configuration.
Configure(config) == config

\* A surface of zero area cannot yield a frame.
Presentable(config) == config.width > 0 /\ config.height > 0

\* Ids a caller can hold: those returned by either Renderer.
HeldIds ==
    {RenderPipelineId("this", i) : i \in 0..(Len(pipelines) - 1)}
    \cup {RenderPipelineId("other", i) : i \in 0..(other_pipelines - 1)}

\* ------------------------------------------------------------------- Init
\* Renderer::new(window, surface_size): size is the explicit size or the
\* window's inner size, either of which may have a zero side.
Init ==
    \E f \in Formats, w \in Widths, h \in Heights :
        /\ surface_and_config =
               [surface |-> Configure(SurfaceConfiguration(f, w, h)),
                config |-> SurfaceConfiguration(f, w, h)]
        /\ surface_ok = Presentable(SurfaceConfiguration(f, w, h))
        /\ format_at_new = f
        /\ resized = None
        /\ pipelines = <<>>
        /\ other_pipelines = 0
        /\ queue = <<>>
        /\ pc = "Idle"
        /\ clear_color = NoColor
        /\ render_pass = None
        /\ calls = <<>>
        /\ frames = 0
        /\ acquires = 0
        /\ acquire_result = "none"
        /\ issued = <<>>
        /\ created = <<>>
        /\ panic = "none"

\* Variant: the methods take &self, so nothing keeps them out of a frame.
Shared == TRUE

\* A method taking &mut self runs only while no other call holds the
\* Renderer; render_pass holds it from entry to return, and its closure is
\* given the builder only.
Exclusive == pc = "Idle"

\* Variant: the error is discarded instead of raised.
ExpectIgnored(result, cause) == "none"

\* Result::expect / Option::unwrap: the cause of the panic, or "none".
Expect(result, cause) == IF result = "Ok" THEN "none" ELSE cause

\* --------------------------------------------------------------- resizing
\* Variant: width and height are stored the wrong way round.
ResizedSwapped(config, w, h) == [config EXCEPT !.width = h, !.height = w]

\* Variant: the configuration is rebuilt with a hard-coded format.
ResizedRebuilt(config, w, h) == SurfaceConfiguration("Bgra8Unorm", w, h)

\* set_surface_size: config.width / config.height are overwritten.
Resized(config, w, h) == [config EXCEPT !.width = w, !.height = h]

\* Renderer::set_surface_size(surface_size).  It takes &mut self, so it
\* cannot run while render_pass holds the Renderer.
SetSurfaceSize ==
    /\ panic = "none"
    /\ Exclusive
    /\ \E w \in Widths, h \in Heights :
        LET config == Resized(surface_and_config.config, w, h) IN
        /\ surface_and_config' = [surface |-> Configure(config), config |-> config]
        /\ surface_ok' = Presentable(config)
        /\ resized' = [width |-> w, height |-> h]
    /\ UNCHANGED <<pipelines, other_pipelines, queue, pc, clear_color,
                   render_pass, calls, frames, issued, created, format_at_new,
                   panic, acquires,
                   acquire_result>>

\* Environment: the window changes under the surface (resize, minimise), so
\* the next get_current_frame reports Outdated / Lost.
SurfaceOutdated ==
    /\ panic = "none"
    /\ pc = "Idle"
    /\ surface_ok
    /\ surface_ok' = FALSE
    /\ resized' = None
    /\ UNCHANGED <<surface_and_config, pipelines, other_pipelines, queue, pc,
                   clear_color, render_pass, calls, frames, issued, created,
                   format_at_new, panic, acquires,
                   acquire_result>>

\* --------------------------------------------------------------- registry
\* Variant: the new pipeline is inserted at the front of the Vec.
PushFront(v, pipeline) == <<pipeline>> \o v

\* self.pipelines.push(pipeline)
Push(v, pipeline) == Append(v, pipeline)

\* Variant: the id is the length after the push, one past the new slot.
NewIdLen(v) == RenderPipelineId("this", Len(v))

\* RenderPipelineId(self.pipelines.len() - 1), evaluated after the push.
NewId(v) == RenderPipelineId("this", Len(v) - 1)

\* Renderer::create_render_pipeline(pipeline_layout, shader_module)
CreateRenderPipeline ==
    /\ panic = "none"
    /\ Exclusive
    /\ Len(pipelines) < MaxPipelines
    /\ LET pipeline == RenderPipeline(Len(created) + 1,
                                      surface_and_config.config.format)
           pushed == Push(pipelines, pipeline)
       IN /\ pipelines' = pushed
          /\ issued' = Append(issued, NewId(pushed))
          /\ created' = Append(created, pipeline)
          /\ resized' = None
    /\ UNCHANGED <<surface_and_config, surface_ok, other_pipelines, queue, pc,
                   clear_color, render_pass, calls, frames, format_at_new, panic, acquires,
                   acquire_result>>

\* create_render_pipeline on the other Renderer instance: its Vec grows and
\* it returns the id len - 1.
OtherCreateRenderPipeline ==
    /\ panic = "none"
    /\ Exclusive
    /\ other_pipelines < MaxPipelines
    /\ other_pipelines' = other_pipelines + 1
    /\ resized' = None
    /\ UNCHANGED <<surface_and_config, surface_ok, pipelines, queue, pc,
                   clear_color, render_pass, calls, frames, issued, created,
                   format_at_new, panic, acquires,
                   acquire_result>>

\* ------------------------------------------------------------ render_pass
RECURSIVE Recorded(_)
\* Number of commands in the submitted command buffers.
Recorded(q) == IF q = <<>> THEN 0 ELSE Len(Head(q).cmds) + Recorded(Tail(q))

\* Builder calls made so far by all closures.
CallsMade == Recorded(queue) + (IF pc = "PassOpen" THEN Len(calls) ELSE 0)

\* surface.get_current_frame()
GetCurrentFrame == IF surface_ok THEN "Ok" ELSE "Err"

\* render_pass entry: surface.get_current_frame().expect(..).  The call takes
\* &mut self, so it starts only when no other call on the Renderer is running.
RenderPassAcquire ==
    /\ panic = "none"
    /\ Exclusive
    /\ frames < MaxFrames
    /\ \E c \in Colors :
        /\ clear_color' = c
        /\ resized' = None
    /\ frames' = frames + 1
    /\ acquires' = acquires + 1
    /\ acquire_result' = GetCurrentFrame
    /\ panic' = Expect(GetCurrentFrame, "acquire")
    /\ pc' = IF Expect(GetCurrentFrame, "acquire") = "none" THEN "Acquired" ELSE pc
    /\ UNCHANGED <<surface_and_config, surface_ok, pipelines, other_pipelines,
                   queue, render_pass, calls, issued, created, format_at_new>>

\* create_view, create_command_encoder, begin_render_pass with
\* LoadOp::Clear(clear_color), store: true; the builder is constructed.
RenderPassBegin ==
    /\ panic = "none"
    /\ pc = "Acquired"
    /\ pc' = "PassOpen"
    /\ render_pass' = [clear |-> clear_color, store |-> TRUE, pipeline |-> None,
                       cmds |-> <<>>]
    /\ UNCHANGED <<surface_and_config, surface_ok, pipelines, other_pipelines,
                   queue, clear_color, calls, frames, issued, created,
                   format_at_new, resized, panic, acquires,
                   acquire_result>>

\* RenderPassBuilder::set_pipeline(id), called by the closure.
SetPipeline ==
    /\ panic = "none"
    /\ pc = "PassOpen"
    /\ CallsMade < MaxCalls
    /\ \E id \in HeldIds :
        LET pipeline == Get(pipelines, id.idx) IN
        /\ IF pipeline = None
             THEN /\ panic' = "unwrap"
                  /\ UNCHANGED <<render_pass, calls>>
             ELSE /\ panic' = "none"
                  /\ render_pass' =
                         [render_pass EXCEPT
                              !.pipeline = pipeline,
                              !.cmds = Append(@, [op |-> "set_pipeline",
                                                  pipeline |-> pipeline])]
                  /\ calls' = Append(calls, [op |-> "set_pipeline", id |-> id])
    /\ UNCHANGED <<surface_and_config, surface_ok, pipelines, other_pipelines,
                   queue, pc, clear_color, frames, issued, created,
                   format_at_new, resized, acquires,
                   acquire_result>>

\* Variant: the builder refuses a draw while no pipeline is bound.
DrawGuarded ==
    /\ panic = "none"
    /\ pc = "PassOpen"
    /\ CallsMade < MaxCalls
    /\ \E v \in VertexRanges :
        IF render_pass.pipeline = None
          THEN /\ panic' = "draw_unbound"
               /\ UNCHANGED <<render_pass, calls>>
          ELSE /\ panic' = "none"
               /\ render_pass' =
                      [render_pass EXCEPT
                           !.cmds = Append(@, [op |-> "draw", vertices |-> v,
                                               instances |-> <<0, 1>>])]
               /\ calls' = Append(calls, [op |-> "draw", vertices |-> v,
                                          instances |-> <<0, 1>>])
    /\ UNCHANGED <<surface_and_config, surface_ok, pipelines, other_pipelines,
                   queue, pc, clear_color, frames, acquires, acquire_result,
                   issued, created, format_at_new, resized>>

\* RenderPassBuilder::draw(vertices, instances), delegated to the pass.
Draw ==
    /\ panic = "none"
    /\ pc = "PassOpen"
    /\ CallsMade < MaxCalls
    /\ \E v \in VertexRanges :
        /\ render_pass' =
               [render_pass EXCEPT
                    !.cmds = Append(@, [op |-> "draw", vertices |-> v,
                                        instances |-> <<0, 1>>])]
        /\ calls' = Append(calls, [op |-> "draw", vertices |-> v,
                                   instances |-> <<0, 1>>])
    /\ UNCHANGED <<surface_and_config, surface_ok, pipelines, other_pipelines,
                   queue, pc, clear_color, frames, issued, created,
                   format_at_new, resized, panic, acquires,
                   acquire_result>>

\* Variant: the pass is cleared but the recorded commands are lost.
FinishEmpty(frame, pass) == [frame |-> frame, clear |-> pass.clear, cmds |-> <<>>]

\* encoder.finish(): the command buffer holding the closed pass.
Finish(frame, pass) == [frame |-> frame, clear |-> pass.clear, cmds |-> pass.cmds]

\* The closure returns, the pass is dropped (closed) and
\* self.queue.submit(Some(encoder.finish())) runs.
RenderPassSubmit ==
    /\ panic = "none"
    /\ pc = "PassOpen"
    /\ pc' = "Submitted"
    /\ queue' = Append(queue, Finish(frames, render_pass))
    /\ UNCHANGED <<surface_and_config, surface_ok, pipelines, other_pipelines,
                   clear_color, render_pass, calls, frames, issued, created,
                   format_at_new, resized, panic, acquires,
                   acquire_result>>

\* render_pass returns: view and frame are dropped.
RenderPassReturn ==
    /\ panic = "none"
    /\ pc = "Submitted"
    /\ pc' = "Idle"
    /\ clear_color' = NoColor
    /\ render_pass' = None
    /\ calls' = <<>>
    /\ UNCHANGED <<surface_and_config, surface_ok, pipelines, other_pipelines,
                   queue, frames, issued, created, format_at_new, resized,
                   panic, acquires,
                   acquire_result>>

Next ==
    \/ SetSurfaceSize
    \/ SurfaceOutdated
    \/ CreateRenderPipeline
    \/ OtherCreateRenderPipeline
    \/ RenderPassAcquire
    \/ RenderPassBegin
    \/ SetPipeline
    \/ Draw
    \/ RenderPassSubmit
    \/ RenderPassReturn

Spec == Init /\ [][Next]_vars

\* ==================================================================== claims
Last(s) == s[Len(s)]

\* The commands the closure's calls stand for: set_pipeline(id) is the
\* pipeline at index id of this Renderer's registry, draw is itself.
Expected(cs) ==
    [i \in 1..Len(cs) |->
        IF cs[i].op = "set_pipeline"
          THEN [op |-> "set_pipeline", pipeline |-> Get(pipelines, cs[i].id.idx)]
          ELSE cs[i]]

\* calls[i] is a draw made while no set_pipeline had succeeded in the frame.
UnboundDraw(i) ==
    /\ calls[i].op = "draw"
    /\ \A j \in 1..(i - 1) : calls[j].op # "set_pipeline"

\* C1: the ids returned by create_render_pipeline on this Renderer are
\* strictly increasing in issuance order (hence pairwise distinct), whatever
\* else happened in between, and the first two are 0 and 1.
C1_IdsStrictlyIncreasing ==
    /\ \A i, j \in 1..Len(issued) : i < j => issued[i].idx < issued[j].idx
    /\ Len(issued) >= 1 => issued[1].idx = 0
    /\ Len(issued) >= 2 => issued[2].idx = 1

\* Two ids were issued with a frame and a resize around them.
C1_Witness ==
    /\ Len(issued) = 2
    /\ Len(queue) >= 1
    /\ resized # None

\* C2: in every state, every id this Renderer ever returned resolves to the
\* pipeline object made by the call that returned it, and a set_pipeline(id)
\* made inside a frame with such an id has bound exactly that object.
C2_IssuedIdResolves ==
    /\ \A k \in 1..Len(issued) : Get(pipelines, issued[k].idx) = created[k]
    /\ pc = "PassOpen" =>
         \A i \in 1..Len(calls) :
            \A k \in 1..Len(issued) :
               (calls[i].op = "set_pipeline" /\ calls[i].id = issued[k])
                  => render_pass.cmds[i].pipeline = created[k]

\* The first id is bound in a later frame, after a second pipeline was made.
C2_Witness ==
    /\ pc = "PassOpen"
    /\ Len(issued) = 2
    /\ Len(queue) >= 1
    /\ Len(calls) >= 1
    /\ calls[1].op = "set_pipeline"
    /\ calls[1].id = issued[1]

\* C3 (as claimed): a set_pipeline with an id that this Renderer did not
\* issue never binds a pipeline: no completed set_pipeline call of the
\* closure carries an id of the other Renderer.
C3_ForeignIdNeverBinds ==
    \A i \in 1..Len(calls) :
        calls[i].op = "set_pipeline" => calls[i].id.owner = "this"

\* C4: pc moves only along Idle -> Acquired -> PassOpen -> Submitted -> Idle,
\* one step at a time, and a render_pass call begins only from Idle.
FrameCycle ==
    {<<"Idle", "Acquired">>, <<"Acquired", "PassOpen">>,
     <<"PassOpen", "Submitted">>, <<"Submitted", "Idle">>}

C4_FrameOrder ==
    [][/\ pc' # pc => <<pc, pc'>> \in FrameCycle
       /\ frames' # frames => (pc = "Idle" /\ frames' = frames + 1)]_vars

\* Two frames went round the whole cycle.
C4_Witness ==
    /\ pc = "Idle"
    /\ frames = 2
    /\ Len(queue) = 2

C6_ResizeApplied ==
    (resized # None /\ resized.width > 0 /\ resized.height > 0) =>
        /\ surface_and_config.config.width = resized.width
        /\ surface_and_config.config.height = resized.height
        /\ surface_and_config.surface = surface_and_config.config
        /\ GetCurrentFrame = "Ok"

\* A positive resize was applied after a frame had been drawn.
C6_Witness ==
    /\ resized # None
    /\ resized.width > 0
    /\ resized.height > 0
    /\ Len(queue) >= 1

\* C7 (as claimed): the surface is never configured with a zero side.
C7_NeverZeroArea ==
    /\ surface_and_config.surface.width > 0
    /\ surface_and_config.surface.height > 0

\* C8: the queue holds exactly one command buffer per render_pass call that
\* got past its closure, in call order; nothing is submitted while the
\* closure runs; the buffer of the frame just submitted clears to the colour
\* passed in and holds the closure's calls, in order.
C8_OneSubmissionPerFrame ==
    /\ \A i \in 1..Len(queue) : queue[i].frame = i
    /\ pc \in {"Acquired", "PassOpen"} => Len(queue) = frames - 1
    /\ (pc = "Idle" /\ panic = "none") => Len(queue) = frames
    /\ pc = "Submitted" =>
         /\ Len(queue) = frames
         /\ Last(queue).clear = clear_color
         /\ Last(queue).cmds = Expected(calls)

\* An empty frame was submitted, then one with a set_pipeline and a draw.
C8_Witness ==
    /\ pc = "Submitted"
    /\ Len(queue) = 2
    /\ queue[1].cmds = <<>>
    /\ queue[1].clear = "CORNFLOWER_BLUE"
    /\ Len(calls) = 2
    /\ calls[1].op = "set_pipeline"
    /\ calls[2].op = "draw"

\* C9 (as claimed): no pass, open or submitted, holds a draw that is not
\* preceded by a set_pipeline in the same pass.
DrawsBound(cmds) ==
    \A i \in 1..Len(cmds) :
        cmds[i].op = "draw" => \E j \in 1..(i - 1) : cmds[j].op = "set_pipeline"

C9_UnboundDrawSignalled ==
    /\ render_pass # None => DrawsBound(render_pass.cmds)
    /\ \A i \in 1..Len(queue) : DrawsBound(queue[i].cmds)

\* C9 (amended): the core does not check a draw made before any
\* set_pipeline: it raises nothing of its own (the only panics are the
\* expect on acquisition and the unwrap in set_pipeline), records the draw in
\* the pass, and submits it with the frame.
C9_UnboundDrawRecorded ==
    /\ panic \in {"none", "acquire", "unwrap"}
    /\ pc \in {"PassOpen", "Submitted"} =>
         \A i \in 1..Len(calls) :
            UnboundDraw(i) =>
               /\ render_pass.cmds[i] = calls[i]
               /\ pc = "Submitted" => Last(queue).cmds[i] = calls[i]

\* A frame whose first call was a draw has been submitted.
C9_Witness ==
    /\ pc = "Submitted"
    /\ Len(calls) >= 1
    /\ UnboundDraw(1)
    /\ Last(queue).cmds[1].op = "draw"

\* C10: format and presentation mode of the stored configuration and of the
\* configured surface are those set by Renderer::new, the registry holds
\* exactly the pipelines created, in order, and every stored pipeline targets
\* the current surface format.
C10_FormatAndRegistryKept ==
    /\ surface_and_config.config.format = format_at_new
    /\ surface_and_config.surface.format = format_at_new
    /\ surface_and_config.config.present_mode = "Fifo"
    /\ surface_and_config.surface.present_mode = "Fifo"
    /\ pipelines = created
    /\ \A i \in 1..Len(pipelines) :
          pipelines[i].target = surface_and_config.config.format

\* A resize has just been applied to a Renderer that holds two pipelines.
C10_Witness ==
    /\ resized # None
    /\ Len(pipelines) = 2
    /\ issued = <<RenderPipelineId("this", 0), RenderPipelineId("this", 1)>>

====
